---- MODULE Spec2Model ----
(***************************************************************************)
(* Model of pkg/papi/propertyversion.go: the four property-version calls   *)
(* of the PAPI client (GetPropertyVersions, GetLatestVersion,              *)
(* GetPropertyVersion, CreatePropertyVersion).                             *)
(*                                                                         *)
(* A Go string is a sequence of atoms.  An atom is either one character    *)
(* that matters to URL syntax or to number parsing ("/", "?", "&", "=",    *)
(* "-", "+", a digit) or an opaque run of other characters ("papi",        *)
(* "prp_1", ...).  "%zz" stands for an invalid percent escape.  A pointer  *)
(* result is <<>> (nil) or <<value>>.  An error is "nil" or its sentinel.  *)
(***************************************************************************)
EXTENDS Integers, Sequences, FiniteSets, TLC

VARIABLES
    usePrefixes,  \* p.usePrefixes, field of the papi client
    pc,           \* "idle" | "exec" (request built, p.Exec pending) | "done"
    op,           \* the operation being called, "none" when idle
    params,       \* the request struct passed by the caller
    req,          \* <<>> or <<the *http.Request built by the call>>
    sent,         \* the requests handed to p.Exec during the current call
    out,          \* <<>> or <<what p.Exec returned>>
    result        \* the (response, error) pair returned to the caller

vars == <<usePrefixes, pc, op, params, req, sent, out, result>>

\* ---------------------------------------------------------------- bounds
MaxLimit == 11      \* Limit and Offset range over -1..MaxLimit
MaxVersion == 2     \* PropertyVersion and CreateFromVersion range over -1..MaxVersion
MaxIDLen == 2       \* length of the last path segment of a returned versionLink

\* ------------------------------------------------------ program constants
StatusOK == 200
StatusCreated == 201
StatusNotFound == 404

VersionProduction == <<"PRODUCTION">>
VersionStaging == <<"STAGING">>

\* ------------------------------------------------------------ input sets
PropertyIDs == {<<>>, <<"prp_1">>, <<"prp_", "2">>, <<"%zz">>}
ContractIDs == {<<>>, <<"ctr_1">>}
GroupIDs == {<<>>, <<"grp_1">>}
Etags == {<<>>, <<"e1">>}
ActivatedOns == {<<>>, VersionProduction, VersionStaging, <<"production">>, <<"LATEST">>}

GetPropertyVersionsRequests ==
    [PropertyID : PropertyIDs, ContractID : ContractIDs, GroupID : GroupIDs,
     Limit : -1..MaxLimit, Offset : -1..MaxLimit]

GetPropertyVersionRequests ==
    [PropertyID : PropertyIDs, PropertyVersion : -1..MaxVersion,
     ContractID : ContractIDs, GroupID : GroupIDs]

PropertyVersionCreates ==
    [CreateFromVersion : -1..MaxVersion, CreateFromVersionEtag : Etags]

CreatePropertyVersionRequests ==
    [PropertyID : PropertyIDs, ContractID : ContractIDs, GroupID : GroupIDs,
     Version : PropertyVersionCreates]

GetLatestVersionRequests ==
    [PropertyID : PropertyIDs, ActivatedOn : ActivatedOns,
     ContractID : ContractIDs, GroupID : GroupIDs]

\* ------------------------------------------------------- string helpers
Digits == <<"0", "1", "2", "3", "4", "5", "6", "7", "8", "9">>

IsDigit(a) == \E i \in 1..10 : Digits[i] = a

DigitValue(a) == (CHOOSE i \in 1..10 : Digits[i] = a) - 1

\* fmt's %d applied to a non-negative int
RECURSIVE FormatUint(_)
FormatUint(n) ==
    IF n < 10 THEN <<Digits[n + 1]>>
    ELSE FormatUint(n \div 10) \o <<Digits[(n % 10) + 1]>>

\* fmt's %d
FormatInt(n) == IF n < 0 THEN <<"-">> \o FormatUint(-n) ELSE FormatUint(n)

\* cast.ToString applied to a bool
CastToString(b) == IF b THEN <<"true">> ELSE <<"false">>

\* index of the first atom equal to a, 0 when there is none
IndexOf(s, a) ==
    IF \E i \in 1..Len(s) : s[i] = a
    THEN CHOOSE i \in 1..Len(s) : s[i] = a /\ \A j \in 1..(i - 1) : s[j] # a
    ELSE 0

\* the part of a URL before its first "?"
URLPath(u) == IF IndexOf(u, "?") = 0 THEN u ELSE SubSeq(u, 1, IndexOf(u, "?") - 1)

\* the part of a URL after its first "?"
URLRawQuery(u) == IF IndexOf(u, "?") = 0 THEN <<>> ELSE SubSeq(u, IndexOf(u, "?") + 1, Len(u))

\* strings.Split(s, sep) for a one-character separator
RECURSIVE Split(_, _)
Split(s, sep) ==
    IF IndexOf(s, sep) = 0 THEN <<s>>
    ELSE <<SubSeq(s, 1, IndexOf(s, sep) - 1)>> \o Split(SubSeq(s, IndexOf(s, sep) + 1, Len(s)), sep)

\* url.Parse accepts the string: no invalid percent escape in the path
URLParseOK(u) == \A i \in 1..Len(URLPath(u)) : URLPath(u)[i] # "%zz"

\* --------------------------------------------------------- validation
\* validation.Required on a string: the value is not empty
RequiredString(s) == s # <<>>

\* validation.Required on an int: the value is not zero
RequiredInt(n) == n # 0

\* a membership rule that does not skip the empty value
InNoSkip(s, values) == s \in values

\* validation.In(values...): an empty value is skipped, any other must be listed
In(s, values) == s = <<>> \/ s \in values

\* GetPropertyVersionsRequest.Validate returns nil
GetPropertyVersionsRequestValidate(v) == RequiredString(v.PropertyID)

\* GetPropertyVersionRequest.Validate returns nil
GetPropertyVersionRequestValidate(v) ==
    RequiredString(v.PropertyID) /\ RequiredInt(v.PropertyVersion)

\* PropertyVersionCreate.Validate returns nil
PropertyVersionCreateValidate(v) == RequiredInt(v.CreateFromVersion)

\* a Validate that does not descend into Version
CreatePropertyVersionRequestValidateShallow(v) == RequiredString(v.PropertyID)

\* CreatePropertyVersionRequest.Validate returns nil; validation.Validate with
\* no rule runs the Validate method of the value
CreatePropertyVersionRequestValidate(v) ==
    RequiredString(v.PropertyID) /\ PropertyVersionCreateValidate(v.Version)

\* GetLatestVersionRequest.Validate returns nil
GetLatestVersionRequestValidate(v) ==
    RequiredString(v.PropertyID) /\ In(v.ActivatedOn, {VersionProduction, VersionStaging})

\* ------------------------------------------------------- URL construction
\* the limit parameter appended only when positive
GetPropertyVersionsURLPositiveLimit(p) ==
    <<"/", "papi", "/", "v1", "/", "properties", "/">> \o p.PropertyID
        \o <<"/", "versions", "?", "contractId", "=">> \o p.ContractID
        \o <<"&", "groupId", "=">> \o p.GroupID
        \o (IF p.Limit > 0 THEN <<"&", "limit", "=">> \o FormatInt(p.Limit) ELSE <<>>)
        \o (IF p.Offset # 0 THEN <<"&", "offset", "=">> \o FormatInt(p.Offset) ELSE <<>>)

GetPropertyVersionsURL(p) ==
    <<"/", "papi", "/", "v1", "/", "properties", "/">> \o p.PropertyID
        \o <<"/", "versions", "?", "contractId", "=">> \o p.ContractID
        \o <<"&", "groupId", "=">> \o p.GroupID
        \o (IF p.Limit # 0 THEN <<"&", "limit", "=">> \o FormatInt(p.Limit) ELSE <<>>)
        \o (IF p.Offset # 0 THEN <<"&", "offset", "=">> \o FormatInt(p.Offset) ELSE <<>>)

GetLatestVersionURL(p) ==
    <<"/", "papi", "/", "v1", "/", "properties", "/">> \o p.PropertyID
        \o <<"/", "versions", "/", "latest", "?", "contractId", "=">> \o p.ContractID
        \o <<"&", "groupId", "=">> \o p.GroupID
        \o (IF p.ActivatedOn # <<>> THEN <<"&", "activatedOn", "=">> \o p.ActivatedOn ELSE <<>>)

GetPropertyVersionURL(p) ==
    <<"/", "papi", "/", "v1", "/", "properties", "/">> \o p.PropertyID
        \o <<"/", "versions", "/">> \o FormatInt(p.PropertyVersion)
        \o <<"?", "contractId", "=">> \o p.ContractID
        \o <<"&", "groupId", "=">> \o p.GroupID

CreatePropertyVersionURL(p) ==
    <<"/", "papi", "/", "v1", "/", "properties", "/">> \o p.PropertyID
        \o <<"/", "versions", "?", "contractId", "=">> \o p.ContractID
        \o <<"&", "groupId", "=">> \o p.GroupID

\* the *http.Request handed to p.Exec: http.NewRequestWithContext(ctx, method,
\* url, nil), the PAPI-Use-Prefixes header, and the values passed to Exec
\* after the output argument (none in any of the four calls)
NewRequest(method, url, prefixes) ==
    [Method |-> method, URL |-> url, PAPIUsePrefixes |-> CastToString(prefixes), In |-> <<>>]

\* ------------------------------------------------------------ transport
Statuses == {StatusOK, StatusCreated, 204, 302, StatusNotFound, 500}

\* bodies decoded into GetPropertyVersionsResponse
GetPropertyVersionsResponses ==
    {[PropertyID |-> <<"prp_1">>, Items |-> <<>>],
     [PropertyID |-> <<"prp_1">>, Items |-> <<[PropertyVersion |-> 1]>>]}

IDAlphabet == {"0", "7", "-", "+", "x"}

IDs == UNION {[1..n -> IDAlphabet] : n \in 0..MaxIDLen}

LinkPrefix == <<"/", "papi", "/", "v1", "/", "properties", "/", "prp_1", "/", "versions", "/">>

\* values of versionLink in a response body
VersionLinks ==
    {LinkPrefix \o id : id \in IDs}
        \cup {<<>>, <<"%zz">>, LinkPrefix \o <<"7", "?", "contractId", "=", "ctr_1">>}

\* what p.Exec returns to a GET call: an error or a response, and the body
\* it decoded into the output argument
GetExecOutcomes ==
    [err : BOOLEAN, StatusCode : Statuses, body : GetPropertyVersionsResponses]

\* what p.Exec returns to CreatePropertyVersion
CreateExecOutcomes ==
    [err : BOOLEAN, StatusCode : Statuses, body : [VersionLink : VersionLinks]]

\* tools.FetchIDFromLocation: the last segment of the path of the link
FetchIDFromLocation(loc) ==
    IF ~URLParseOK(loc) THEN [err |-> TRUE, id |-> <<>>]
    ELSE LET segs == Split(URLPath(loc), "/")
         IN [err |-> FALSE, id |-> segs[Len(segs)]]

\* value of a string of digits, as strconv.Atoi accumulates it
RECURSIVE Accumulate(_, _)
Accumulate(s, n) ==
    IF s = <<>> THEN n ELSE Accumulate(Tail(s), n * 10 + DigitValue(Head(s)))

\* a conversion that yields 0 where strconv.Atoi reports an error
AtoiLenient(s) ==
    LET signed == s # <<>> /\ Head(s) \in {"+", "-"}
        body == IF signed THEN Tail(s) ELSE s
    IN IF body = <<>> \/ \E i \in 1..Len(body) : ~IsDigit(body[i])
       THEN [err |-> FALSE, val |-> 0]
       ELSE [err |-> FALSE,
             val |-> IF Head(s) = "-" THEN -Accumulate(body, 0) ELSE Accumulate(body, 0)]

\* strconv.Atoi: an optional sign, then one or more digits
Atoi(s) ==
    LET signed == s # <<>> /\ Head(s) \in {"+", "-"}
        body == IF signed THEN Tail(s) ELSE s
    IN IF body = <<>> \/ \E i \in 1..Len(body) : ~IsDigit(body[i])
       THEN [err |-> TRUE, val |-> 0]
       ELSE [err |-> FALSE,
             val |-> IF Head(s) = "-" THEN -Accumulate(body, 0) ELSE Accumulate(body, 0)]

\* ---------------------------------------------------------------- results
NoResult == [resp |-> <<>>, err |-> "nil"]

Fail(e) == [resp |-> <<>>, err |-> e]

\* GetPropertyVersions after p.Exec has returned o
GetPropertyVersionsResult(o) ==
    IF o.err THEN Fail("ExecFailed")
    ELSE IF o.StatusCode = StatusNotFound THEN Fail("ErrNotFound")
    ELSE IF o.StatusCode # StatusOK THEN Fail("APIError")
    ELSE [resp |-> <<o.body>>, err |-> "nil"]

\* the status examined before the error of p.Exec
GetLatestVersionResultStatusFirst(o) ==
    IF o.StatusCode = StatusNotFound THEN Fail("ErrNotFound")
    ELSE IF o.StatusCode # StatusOK THEN Fail("APIError")
    ELSE IF o.err THEN [resp |-> <<o.body>>, err |-> "ExecFailed"]
    ELSE [resp |-> <<o.body>>, err |-> "nil"]

\* GetLatestVersion after p.Exec has returned o
GetLatestVersionResult(o) ==
    IF o.err THEN Fail("ExecFailed")
    ELSE IF o.StatusCode = StatusNotFound THEN Fail("ErrNotFound")
    ELSE IF o.StatusCode # StatusOK THEN Fail("APIError")
    ELSE [resp |-> <<o.body>>, err |-> "nil"]

\* every 2xx status taken as success
GetPropertyVersionResultAny2xx(o) ==
    IF o.err THEN Fail("ExecFailed")
    ELSE IF o.StatusCode = StatusNotFound THEN Fail("ErrNotFound")
    ELSE IF o.StatusCode < 200 \/ o.StatusCode > 299 THEN Fail("APIError")
    ELSE [resp |-> <<o.body>>, err |-> "nil"]

\* GetPropertyVersion after p.Exec has returned o
GetPropertyVersionResult(o) ==
    IF o.err THEN Fail("ExecFailed")
    ELSE IF o.StatusCode = StatusNotFound THEN Fail("ErrNotFound")
    ELSE IF o.StatusCode # StatusOK THEN Fail("APIError")
    ELSE [resp |-> <<o.body>>, err |-> "nil"]

\* the parsed number never stored in the response
CreatePropertyVersionResultNoNumber(o) ==
    IF o.err THEN Fail("ExecFailed")
    ELSE IF o.StatusCode # StatusCreated THEN Fail("APIError")
    ELSE LET propertyVersion == FetchIDFromLocation(o.body.VersionLink)
         IN IF propertyVersion.err THEN Fail("ErrInvalidLocation")
            ELSE LET versionNumber == Atoi(propertyVersion.id)
                 IN IF versionNumber.err THEN Fail("ErrInvalidLocation")
                    ELSE [resp |-> <<[VersionLink |-> o.body.VersionLink,
                                      PropertyVersion |-> 0]>>,
                          err |-> "nil"]

\* CreatePropertyVersion after p.Exec has returned o
CreatePropertyVersionResult(o) ==
    IF o.err THEN Fail("ExecFailed")
    ELSE IF o.StatusCode # StatusCreated THEN Fail("APIError")
    ELSE LET propertyVersion == FetchIDFromLocation(o.body.VersionLink)
         IN IF propertyVersion.err THEN Fail("ErrInvalidLocation")
            ELSE LET versionNumber == Atoi(propertyVersion.id)
                 IN IF versionNumber.err THEN Fail("ErrInvalidLocation")
                    ELSE [resp |-> <<[VersionLink |-> o.body.VersionLink,
                                      PropertyVersion |-> versionNumber.val]>>,
                          err |-> "nil"]

\* a call that goes back to p.Exec after a transport failure
AfterExecRetry(r) == IF r.err = "ExecFailed" THEN "exec" ELSE "done"

\* where a call stands once it has handled what p.Exec returned: every
\* branch after p.Exec is a return statement
AfterExec(r) == "done"

\* ---------------------------------------------------------------- actions
NoParams == [PropertyID |-> <<>>, ContractID |-> <<>>, GroupID |-> <<>>]

Init ==
    /\ usePrefixes \in BOOLEAN
    /\ pc = "idle"
    /\ op = "none"
    /\ params = NoParams
    /\ req = <<>>
    /\ sent = <<>>
    /\ out = <<>>
    /\ result = NoResult

\* GetPropertyVersions up to its call of p.Exec
GetPropertyVersions ==
    /\ pc = "idle"
    /\ \E p \in GetPropertyVersionsRequests :
        /\ op' = "GetPropertyVersions"
        /\ params' = p
        /\ IF ~GetPropertyVersionsRequestValidate(p)
           THEN pc' = "done" /\ req' = <<>> /\ result' = Fail("ErrStructValidation")
           ELSE IF ~URLParseOK(GetPropertyVersionsURL(p))
           THEN pc' = "done" /\ req' = <<>> /\ result' = Fail("ErrCreateRequest")
           ELSE /\ pc' = "exec"
                /\ req' = <<NewRequest("GET", GetPropertyVersionsURL(p), usePrefixes)>>
                /\ result' = NoResult
    /\ UNCHANGED <<usePrefixes, sent, out>>

\* p.Exec returns to GetPropertyVersions
GetPropertyVersionsExec ==
    /\ pc = "exec"
    /\ op = "GetPropertyVersions"
    /\ \E o \in GetExecOutcomes :
        /\ sent' = Append(sent, req[1])
        /\ out' = <<o>>
        /\ result' = GetPropertyVersionsResult(o)
        /\ pc' = AfterExec(GetPropertyVersionsResult(o))
    /\ UNCHANGED <<usePrefixes, op, params, req>>

\* GetLatestVersion up to its call of p.Exec
GetLatestVersion ==
    /\ pc = "idle"
    /\ \E p \in GetLatestVersionRequests :
        /\ op' = "GetLatestVersion"
        /\ params' = p
        /\ IF ~GetLatestVersionRequestValidate(p)
           THEN pc' = "done" /\ req' = <<>> /\ result' = Fail("ErrStructValidation")
           ELSE IF ~URLParseOK(GetLatestVersionURL(p))
           THEN pc' = "done" /\ req' = <<>> /\ result' = Fail("ErrCreateRequest")
           ELSE /\ pc' = "exec"
                /\ req' = <<NewRequest("GET", GetLatestVersionURL(p), usePrefixes)>>
                /\ result' = NoResult
    /\ UNCHANGED <<usePrefixes, sent, out>>

\* p.Exec returns to GetLatestVersion
GetLatestVersionExec ==
    /\ pc = "exec"
    /\ op = "GetLatestVersion"
    /\ \E o \in GetExecOutcomes :
        /\ sent' = Append(sent, req[1])
        /\ out' = <<o>>
        /\ result' = GetLatestVersionResult(o)
        /\ pc' = AfterExec(GetLatestVersionResult(o))
    /\ UNCHANGED <<usePrefixes, op, params, req>>

\* GetPropertyVersion up to its call of p.Exec
GetPropertyVersion ==
    /\ pc = "idle"
    /\ \E p \in GetPropertyVersionRequests :
        /\ op' = "GetPropertyVersion"
        /\ params' = p
        /\ IF ~GetPropertyVersionRequestValidate(p)
           THEN pc' = "done" /\ req' = <<>> /\ result' = Fail("ErrStructValidation")
           ELSE IF ~URLParseOK(GetPropertyVersionURL(p))
           THEN pc' = "done" /\ req' = <<>> /\ result' = Fail("ErrCreateRequest")
           ELSE /\ pc' = "exec"
                /\ req' = <<NewRequest("GET", GetPropertyVersionURL(p), usePrefixes)>>
                /\ result' = NoResult
    /\ UNCHANGED <<usePrefixes, sent, out>>

\* p.Exec returns to GetPropertyVersion
GetPropertyVersionExec ==
    /\ pc = "exec"
    /\ op = "GetPropertyVersion"
    /\ \E o \in GetExecOutcomes :
        /\ sent' = Append(sent, req[1])
        /\ out' = <<o>>
        /\ result' = GetPropertyVersionResult(o)
        /\ pc' = AfterExec(GetPropertyVersionResult(o))
    /\ UNCHANGED <<usePrefixes, op, params, req>>

\* CreatePropertyVersion up to its call of p.Exec
CreatePropertyVersion ==
    /\ pc = "idle"
    /\ \E p \in CreatePropertyVersionRequests :
        /\ op' = "CreatePropertyVersion"
        /\ params' = p
        /\ IF ~CreatePropertyVersionRequestValidate(p)
           THEN pc' = "done" /\ req' = <<>> /\ result' = Fail("ErrStructValidation")
           ELSE IF ~URLParseOK(CreatePropertyVersionURL(p))
           THEN pc' = "done" /\ req' = <<>> /\ result' = Fail("ErrCreateRequest")
           ELSE /\ pc' = "exec"
                /\ req' = <<NewRequest("POST", CreatePropertyVersionURL(p), usePrefixes)>>
                /\ result' = NoResult
    /\ UNCHANGED <<usePrefixes, sent, out>>

\* p.Exec returns to CreatePropertyVersion
CreatePropertyVersionExec ==
    /\ pc = "exec"
    /\ op = "CreatePropertyVersion"
    /\ \E o \in CreateExecOutcomes :
        /\ sent' = Append(sent, req[1])
        /\ out' = <<o>>
        /\ result' = CreatePropertyVersionResult(o)
        /\ pc' = AfterExec(CreatePropertyVersionResult(o))
    /\ UNCHANGED <<usePrefixes, op, params, req>>

\* the caller takes the returned pair; the client is ready for another call
Return ==
    /\ pc = "done"
    /\ pc' = "idle"
    /\ op' = "none"
    /\ params' = NoParams
    /\ req' = <<>>
    /\ sent' = <<>>
    /\ out' = <<>>
    /\ result' = NoResult
    /\ UNCHANGED usePrefixes

Next ==
    \/ GetPropertyVersions
    \/ GetPropertyVersionsExec
    \/ GetLatestVersion
    \/ GetLatestVersionExec
    \/ GetPropertyVersion
    \/ GetPropertyVersionExec
    \/ CreatePropertyVersion
    \/ CreatePropertyVersionExec
    \/ Return

Spec == Init /\ [][Next]_vars

\* ================================================================ claims
GetOps == {"GetPropertyVersions", "GetLatestVersion", "GetPropertyVersion"}

\* p.Exec has returned a response without error to the finished call
Responded == pc = "done" /\ out # <<>> /\ ~out[1].err

\* a required field of the request of the current call is missing
MissingRequired ==
    \/ params.PropertyID = <<>>
    \/ op = "GetPropertyVersion" /\ params.PropertyVersion = 0
    \/ op = "CreatePropertyVersion" /\ params.Version.CreateFromVersion = 0

\* C1: a call whose request lacks a required field (PropertyID empty;
\* PropertyVersion 0 for GetPropertyVersion; Version.CreateFromVersion 0 for
\* CreatePropertyVersion) returns the struct-validation error with a nil
\* result, and p.Exec is not invoked for it.
C1_MissingFieldRejected ==
    (op # "none" /\ MissingRequired) =>
        /\ pc = "done"
        /\ result = [resp |-> <<>>, err |-> "ErrStructValidation"]
        /\ req = <<>>
        /\ sent = <<>>
        /\ out = <<>>

C1_Witness ==
    /\ op = "CreatePropertyVersion"
    /\ params.PropertyID # <<>>
    /\ params.Version.CreateFromVersion = 0
    /\ result.err = "ErrStructValidation"

\* C2: for each of the four operations, a response with status 404 returned
\* without error makes the call return session.ErrNotFound and a nil result.
C2_NotFoundInAllFour ==
    (Responded /\ out[1].StatusCode = StatusNotFound) =>
        result = [resp |-> <<>>, err |-> "ErrNotFound"]

\* C3 as stated: after a response without error, the generic API error is
\* returned exactly when the status is outside 200..299 and is not 404.
C3_GenericErrorOutside2xx ==
    Responded =>
        (result.err = "APIError" <=>
            /\ (out[1].StatusCode < 200 \/ out[1].StatusCode > 299)
            /\ out[1].StatusCode # StatusNotFound)

\* C3 amended: after a response without error, the generic API error is
\* returned exactly when the status is not the one status the operation takes
\* as success (200 for the three GET operations, 201 for
\* CreatePropertyVersion) and, for the three GET operations, is not 404.
C3_GenericErrorUnlessExpected ==
    Responded =>
        (result.err = "APIError" <=>
            IF op \in GetOps
            THEN out[1].StatusCode \notin {StatusOK, StatusNotFound}
            ELSE out[1].StatusCode # StatusCreated)

C3_Witness ==
    /\ Responded
    /\ op = "GetPropertyVersion"
    /\ out[1].StatusCode = 204
    /\ result.err = "APIError"

\* C4: the request dispatched by CreatePropertyVersion carries the caller's
\* request.Version as its body.
C4_CreateSendsVersion ==
    (op = "CreatePropertyVersion" /\ sent # <<>>) => sent[1].In = <<params.Version>>

\* a string of an optional sign followed by one or more digits
IsDecimalInteger(s) ==
    LET d == IF s # <<>> /\ s[1] \in {"+", "-"} THEN SubSeq(s, 2, Len(s)) ELSE s
    IN d # <<>> /\ \A i \in 1..Len(d) : IsDigit(d[i])

\* the number a string of digits denotes
RECURSIVE DigitsValue(_)
DigitsValue(d) ==
    IF d = <<>> THEN 0
    ELSE 10 * DigitsValue(SubSeq(d, 1, Len(d) - 1)) + DigitValue(d[Len(d)])

\* the number a decimal integer denotes
DecimalValue(s) ==
    IF s[1] = "-" THEN 0 - DigitsValue(SubSeq(s, 2, Len(s)))
    ELSE IF s[1] = "+" THEN DigitsValue(SubSeq(s, 2, Len(s)))
    ELSE DigitsValue(s)

\* the link yields an ID and the ID is a decimal integer
LinkHasNumericID(l) ==
    ~FetchIDFromLocation(l).err /\ IsDecimalInteger(FetchIDFromLocation(l).id)

\* C5: when CreatePropertyVersion receives a 201 response whose versionLink
\* yields no numeric version ID, it returns tools.ErrInvalidLocation with a
\* nil result.
C5_MalformedLinkRejected ==
    (/\ Responded
     /\ op = "CreatePropertyVersion"
     /\ out[1].StatusCode = StatusCreated
     /\ ~LinkHasNumericID(out[1].body.VersionLink)) =>
        result = [resp |-> <<>>, err |-> "ErrInvalidLocation"]

C5_Witness ==
    /\ Responded
    /\ op = "CreatePropertyVersion"
    /\ out[1].StatusCode = StatusCreated
    /\ out[1].body.VersionLink = LinkPrefix \o <<"7", "x">>
    /\ result.err = "ErrInvalidLocation"

\* C6: CreatePropertyVersion returns a non-nil response exactly when
\* validation passes, p.Exec returns status 201 without error and the ID of
\* the versionLink is a decimal integer; the response then holds that
\* integer as PropertyVersion and the decoded link as VersionLink.
C6_CreateResponse ==
    (op = "CreatePropertyVersion" /\ pc = "done") =>
        LET ok == /\ CreatePropertyVersionRequestValidate(params)
                  /\ Responded
                  /\ out[1].StatusCode = StatusCreated
                  /\ LinkHasNumericID(out[1].body.VersionLink)
        IN /\ (result.resp # <<>>) <=> ok
           /\ ok => result.resp[1] =
                [VersionLink |-> out[1].body.VersionLink,
                 PropertyVersion |->
                    DecimalValue(FetchIDFromLocation(out[1].body.VersionLink).id)]

C6_Witness ==
    /\ op = "CreatePropertyVersion"
    /\ pc = "done"
    /\ result.resp # <<>>
    /\ result.resp[1].PropertyVersion = 70
    /\ result.err = "nil"

\* the values a key has in the query of a URL
QueryValues(u, key) ==
    LET parts == Split(URLRawQuery(u), "&")
    IN {Split(parts[i], "=")[2] :
            i \in {j \in 1..Len(parts) :
                     /\ Len(Split(parts[j], "=")) = 2
                     /\ Split(parts[j], "=")[1] = <<key>>}}

\* C7: the URL of a dispatched request has contractId and groupId with the
\* caller's values and the caller's PropertyID in its path (and
\* PropertyVersion for GetPropertyVersion); for GetPropertyVersions it has
\* limit=<Limit> exactly when Limit is not 0 and offset=<Offset> exactly when
\* Offset is not 0; for GetLatestVersion it has activatedOn=<ActivatedOn>
\* exactly when ActivatedOn is not empty.
C7_URLCarriesParameters ==
    sent # <<>> =>
        LET u == sent[1].URL
            segs == Split(URLPath(u), "/")
        IN /\ QueryValues(u, "contractId") = {params.ContractID}
           /\ QueryValues(u, "groupId") = {params.GroupID}
           /\ Len(segs) >= 6
           /\ SubSeq(segs, 1, 4) = <<<<>>, <<"papi">>, <<"v1">>, <<"properties">>>>
           /\ segs[5] = params.PropertyID
           /\ segs[6] = <<"versions">>
           /\ op = "GetPropertyVersions" =>
                /\ (QueryValues(u, "limit") # {}) <=> (params.Limit # 0)
                /\ \A v \in QueryValues(u, "limit") :
                        Atoi(v) = [err |-> FALSE, val |-> params.Limit]
                /\ (QueryValues(u, "offset") # {}) <=> (params.Offset # 0)
                /\ \A v \in QueryValues(u, "offset") :
                        Atoi(v) = [err |-> FALSE, val |-> params.Offset]
           /\ op = "GetLatestVersion" =>
                /\ (QueryValues(u, "activatedOn") # {}) <=> (params.ActivatedOn # <<>>)
                /\ QueryValues(u, "activatedOn") \subseteq {params.ActivatedOn}
           /\ op = "GetPropertyVersion" =>
                /\ Len(segs) = 7
                /\ Atoi(segs[7]) = [err |-> FALSE, val |-> params.PropertyVersion]

C7_Witness ==
    /\ sent # <<>>
    /\ op = "GetPropertyVersions"
    /\ params.Limit = -1
    /\ params.Offset = 10
    /\ QueryValues(sent[1].URL, "limit") = {<<"-", "1">>}
    /\ QueryValues(sent[1].URL, "offset") = {<<"1", "0">>}

\* C8: a call invokes p.Exec at most once; a call that has returned an error
\* met after dispatch (transport failure, 404, another status, malformed
\* link) has invoked it exactly once.
C8_AtMostOneExec ==
    /\ Len(sent) <= 1
    /\ pc = "exec" => sent = <<>>
    /\ (pc = "done" /\ result.err \in {"ExecFailed", "ErrNotFound", "APIError", "ErrInvalidLocation"}) =>
            Len(sent) = 1

C8_Witness ==
    /\ pc = "done"
    /\ result.err = "ExecFailed"
    /\ Len(sent) = 1

\* C9: GetLatestVersion with a non-empty PropertyID passes validation exactly
\* when ActivatedOn is "", "PRODUCTION" or "STAGING"; otherwise it returns
\* the struct-validation error with a nil result and dispatches no request.
C9_ActivatedOnValidated ==
    (op = "GetLatestVersion" /\ params.PropertyID # <<>>) =>
        IF params.ActivatedOn \in {<<>>, <<"PRODUCTION">>, <<"STAGING">>}
        THEN result.err # "ErrStructValidation"
        ELSE /\ pc = "done"
             /\ result = [resp |-> <<>>, err |-> "ErrStructValidation"]
             /\ req = <<>>
             /\ sent = <<>>

C9_Witness ==
    /\ op = "GetLatestVersion"
    /\ params.PropertyID # <<>>
    /\ params.ActivatedOn = <<"production">>
    /\ result.err = "ErrStructValidation"

\* C10: a returned call yields exactly one of a non-nil response and a
\* non-nil error; when p.Exec returned an error the call returns a nil
\* result and an error whatever the status; a GET operation returns a
\* non-nil response only for status 200.
C10_ResponseXorError ==
    pc = "done" =>
        /\ (result.resp # <<>>) # (result.err # "nil")
        /\ (out # <<>> /\ out[1].err) => (result.resp = <<>> /\ result.err # "nil")
        /\ (op \in GetOps /\ result.resp # <<>>) =>
                (out # <<>> /\ out[1].StatusCode = StatusOK)

C10_Witness ==
    /\ pc = "done"
    /\ op = "GetLatestVersion"
    /\ out # <<>>
    /\ out[1].err
    /\ out[1].StatusCode = StatusOK
    /\ result = [resp |-> <<>>, err |-> "ExecFailed"]

====
